---- MODULE Spec2Model ----
(***************************************************************************)
(* Phamarsim: the relationship graph that binds placed objects to          *)
(* environments and speakers to sound sources.                             *)
(*                                                                         *)
(* Every public method that changes a link is modelled as a recursive      *)
(* operator that computes what the Python method computes: the new heap,   *)
(* the exception that leaves the call (if any) and the deepest call frame  *)
(* the call chain reached.  A top-level call is one action of the model.   *)
(***************************************************************************)
EXTENDS Integers, Sequences, FiniteSets, TLC

\* ------------------------------------------------------------------ bounds
\* Longest iterable handed to add_objects.
MaxBatch == 2
\* Deepest chain of nested calls the interpreter allows before it raises
\* RuntimeError ("maximum recursion depth exceeded").
RecursionLimit == 8

\* ---------------------------------------------------------------- entities
\* An entity is <<class, index>>; the class decides which methods exist.
None == <<"None", 0>>
Envs == {<<"Environment", 1>>, <<"Environment", 2>>}
PlainObjects == {<<"SimpleObject", 1>>}
Speakers == {<<"Speaker", 1>>, <<"Speaker", 2>>}
Sources == {<<"SoundSource", 1>>, <<"SoundSource", 2>>}
\* Everything that carries an _environment back-reference.
Placed == PlainObjects \cup Speakers

\* The arguments the top-level calls are tried with: every entity of the
\* class the method expects and one entity of a class that lacks the
\* reciprocal method.
ObjectArgs == Placed \cup {<<"SoundSource", 1>>}
EnvArgs == Envs \cup {<<"SoundSource", 1>>}
SpeakerArgs == Speakers \cup {<<"SimpleObject", 1>>}
SourceArgs == Sources \cup {<<"Environment", 1>>}
\* The elements of the iterables handed to add_objects.
BatchArgs == {<<"SimpleObject", 1>>, <<"Speaker", 1>>}

\* The entities of the signal chain: an environment with a medium, the
\* microphone of the demonstration script, a sine source and the media.
SimpleEnvs == {<<"SimpleEnvironment", 1>>}
\* An environment of a class written by a user, which supplies the plane
\* waves that Environment.get_pressure_signal sums:
\*   class DirectEnvironment(Environment):
\*       def get_plane_waves(self, t, x, y, z):
\*           return [(t, 0., 0., spk.get_sound_wave(t, 0., 0.))
\*                   for spk in self.get_objects(speakers.Speaker)]
DirectEnvs == {<<"DirectEnvironment", 1>>}
Mics == {<<"Microphone", 1>>}
SineSources == {<<"SineSource", 1>>}
Mediums == {<<"SimpleMedium", 1>>, <<"SimpleAir", 1>>}

\* The methods each class defines (attribute lookup fails for the others).
Methods(cls) ==
    CASE cls \in {"Environment", "SimpleEnvironment", "LockedEnvironment",
                  "DirectEnvironment"} ->
           {"add_object", "remove_object"}
      [] cls \in {"SimpleObject", "Microphone", "LockedObject"} ->
           {"add_to_environment", "remove_from_environment"}
      [] cls \in {"Speaker", "LockedSpeaker"} ->
           {"add_to_environment", "remove_from_environment",
            "connect_to_source", "disconnect_from_source"}
      [] cls \in {"SoundSource", "SineSource", "LockedSource"} ->
           {"connect_speaker", "disconnect_speaker"}
      [] OTHER -> {}

\* The methods that a subclass written by a user overrides with a body that
\* raises IOError: the Locked classes refuse to let go of their peer.
Overrides(cls) ==
    CASE cls = "LockedEnvironment" -> {"remove_object"}
      [] cls = "LockedObject" -> {"remove_from_environment"}
      [] cls = "LockedSource" -> {"disconnect_speaker"}
      [] cls = "LockedSpeaker" -> {"disconnect_from_source"}
      [] OTHER -> {}

HasMethod(x, m) == m \in Methods(x[1])

VARIABLES
    objects,      \* Environment._objects : Envs -> list of entities
    environment,  \* SimpleObject._environment : Placed -> entity or None
    speakers,     \* SoundSource._speakers : Sources -> list of entities
    source,       \* Speaker._source : Speakers -> entity or None
    last,         \* the last completed top-level call and how it ended
    pre,          \* the heap as it was when that call started
    position,     \* SimpleObject._x, _y, _z : placed object -> <<x, y, z>>
    orientation,  \* SimpleObject._theta, _phi, _alpha : placed object -> degrees
    amplification,  \* Speaker._amplification : speaker or microphone -> number
    medium,       \* SimpleEnvironment._medium : environment -> medium
    speed_of_sound  \* SimpleMedium._speed_of_sound : medium -> number

links == <<objects, environment, speakers, source>>
scene == <<position, orientation, amplification, medium, speed_of_sound>>
vars == <<objects, environment, speakers, source, last, pre,
          position, orientation, amplification, medium, speed_of_sound>>

\* The heap as one value, which the method operators transform.
Heap == [objects |-> objects, environment |-> environment,
         speakers |-> speakers, source |-> source]

\* ------------------------------------------------------------ list helpers
\* x in list
Contains(list, x) == \E i \in 1..Len(list) : list[i] = x

Count(list, x) == Cardinality({i \in 1..Len(list) : list[i] = x})


\* list.remove(x) for a list that contains x: drops the first occurrence.
ListRemove(list, x) ==
    LET i == CHOOSE j \in 1..Len(list) :
                 list[j] = x /\ \A k \in 1..(j - 1) : list[k] # x
    IN  [k \in 1..(Len(list) - 1) |-> IF k < i THEN list[k] ELSE list[k + 1]]

\* ------------------------------------------------------- outcomes of a call
Ret(h, d) == [heap |-> h, exc |-> "none", depth |-> d]
Raise(h, e, d) == [heap |-> h, exc |-> e, depth |-> d]

\* ------------------------------------------------------------- the methods
\* Each operator takes the heap h, the receiver, the argument and the depth d
\* of its own call frame, and yields [heap, exc, depth].
RECURSIVE Invoke(_, _, _, _, _)
RECURSIVE add_object(_, _, _, _)
RECURSIVE remove_object(_, _, _, _)
RECURSIVE add_to_environment(_, _, _, _)
RECURSIVE remove_from_environment(_, _, _, _)
RECURSIVE connect_speaker(_, _, _, _)
RECURSIVE disconnect_speaker(_, _, _, _)
RECURSIVE connect_to_source(_, _, _, _)
RECURSIVE disconnect_from_source(_, _, _, _)

\* add_object as it would be if it left out the reciprocal call.
add_object_oneway(h, self, obj, d) ==
    IF Contains(h.objects[self], obj)
    THEN Raise(h, "ValueError", d)
    ELSE Ret([h EXCEPT !.objects[self] = Append(@, obj)], d)

\* add_object as it would be if it appended before it checked for a
\* duplicate.
add_object_append_first(h, self, obj, d) ==
    IF Contains(h.objects[self], obj)
    THEN Raise([h EXCEPT !.objects[self] = Append(@, obj)], "ValueError", d)
    ELSE LET h1 == [h EXCEPT !.objects[self] = Append(@, obj)]
             r == Invoke(h1, obj, "add_to_environment", self, d + 1)
         IN  CASE r.exc \in {"none", "ValueError"} -> Ret(r.heap, r.depth)
               [] OTHER ->
                    IF Contains(r.heap.objects[self], obj)
                    THEN Raise([r.heap EXCEPT !.objects[self] = ListRemove(@, obj)],
                               r.exc, r.depth)
                    ELSE Raise(r.heap, "ValueError", r.depth)

\* Environment.add_object(self, obj)
add_object(h, self, obj, d) ==
    IF Contains(h.objects[self], obj)
    THEN Raise(h, "ValueError", d)
    ELSE LET h1 == [h EXCEPT !.objects[self] = Append(@, obj)]
             r == Invoke(h1, obj, "add_to_environment", self, d + 1)
         IN  CASE r.exc \in {"none", "ValueError"} -> Ret(r.heap, r.depth)
               [] OTHER ->
                    \* except: self._objects.remove(obj); raise
                    IF Contains(r.heap.objects[self], obj)
                    THEN Raise([r.heap EXCEPT !.objects[self] = ListRemove(@, obj)],
                               r.exc, r.depth)
                    ELSE Raise(r.heap, "ValueError", r.depth)

\* remove_object as it would be if it left out the reciprocal call.
remove_object_oneway(h, self, obj, d) ==
    IF ~Contains(h.objects[self], obj)
    THEN Raise(h, "ValueError", d)
    ELSE Ret([h EXCEPT !.objects[self] = ListRemove(@, obj)], d)

\* Environment.remove_object(self, obj)
remove_object(h, self, obj, d) ==
    IF ~Contains(h.objects[self], obj)
    THEN Raise(h, "ValueError", d)
    ELSE LET h1 == [h EXCEPT !.objects[self] = ListRemove(@, obj)]
             r == Invoke(h1, obj, "remove_from_environment", self, d + 1)
         IN  CASE r.exc \in {"none", "ValueError"} -> Ret(r.heap, r.depth)
               [] OTHER -> Raise(r.heap, r.exc, r.depth)

\* a variant of remove_from_environment that swallows every failure of the
\* environment's remove_object
remove_from_environment_except_all(h, self, env, d) ==
    IF h.environment[self] # env
    THEN Raise(h, "ValueError", d)
    ELSE LET h1 == [h EXCEPT !.environment[self] = None]
             r == Invoke(h1, env, "remove_object", self, d + 1)
         IN  Ret(r.heap, r.depth)

\* remove_from_environment as it would be if it left out the reciprocal call.
remove_from_environment_oneway(h, self, env, d) ==
    IF h.environment[self] # env
    THEN Raise(h, "ValueError", d)
    ELSE Ret([h EXCEPT !.environment[self] = None], d)

\* remove_from_environment as it would be without its membership check.
remove_from_environment_nocheck(h, self, env, d) ==
    LET h1 == [h EXCEPT !.environment[self] = None]
        r == Invoke(h1, env, "remove_object", self, d + 1)
    IN  CASE r.exc \in {"none", "ValueError"} -> Ret(r.heap, r.depth)
          [] OTHER -> Raise(r.heap, r.exc, r.depth)

\* SimpleObject.remove_from_environment(self, environment)
remove_from_environment(h, self, env, d) ==
    IF h.environment[self] # env
    THEN Raise(h, "ValueError", d)
    ELSE LET h1 == [h EXCEPT !.environment[self] = None]
             r == Invoke(h1, env, "remove_object", self, d + 1)
         IN  CASE r.exc \in {"none", "ValueError"} -> Ret(r.heap, r.depth)
               [] OTHER -> Raise(r.heap, r.exc, r.depth)

\* add_to_environment as it would be if it did not leave the previous
\* environment.
add_to_environment_keep_old(h, self, env, d) ==
    IF h.environment[self] = env
    THEN Raise(h, "ValueError", d)
    ELSE LET h1 == [h EXCEPT !.environment[self] = env]
             r == Invoke(h1, env, "add_object", self, d + 1)
         IN  CASE r.exc \in {"none", "ValueError"} -> Ret(r.heap, r.depth)
               [] OTHER -> Raise([r.heap EXCEPT !.environment[self] = None],
                                 r.exc, r.depth)

\* add_to_environment as it would be without its duplicate check.
add_to_environment_noguard(h, self, env, d) ==
    LET r0 == IF h.environment[self] # None
              THEN Invoke(h, self, "remove_from_environment",
                          h.environment[self], d + 1)
              ELSE Ret(h, d)
        h1 == [r0.heap EXCEPT !.environment[self] = env]
        r == Invoke(h1, env, "add_object", self, d + 1)
        deepest == IF r.depth > r0.depth THEN r.depth ELSE r0.depth
    IN  CASE r0.exc # "none" -> r0
          [] r.exc \in {"none", "ValueError"} -> Ret(r.heap, deepest)
          [] OTHER -> Raise([r.heap EXCEPT !.environment[self] = None], r.exc, deepest)

\* SimpleObject.add_to_environment(self, environment)
add_to_environment(h, self, env, d) ==
    IF h.environment[self] = env
    THEN Raise(h, "ValueError", d)
    ELSE LET \* Remove object from previous environment
             r0 == IF h.environment[self] # None
                   THEN Invoke(h, self, "remove_from_environment",
                               h.environment[self], d + 1)
                   ELSE Ret(h, d)
             \* Add to new environment
             h1 == [r0.heap EXCEPT !.environment[self] = env]
             r == Invoke(h1, env, "add_object", self, d + 1)
             deepest == IF r.depth > r0.depth THEN r.depth ELSE r0.depth
         IN  CASE r0.exc # "none" -> r0
               [] r.exc \in {"none", "ValueError"} -> Ret(r.heap, deepest)
               [] OTHER ->
                    \* except: self._environment = None; raise
                    Raise([r.heap EXCEPT !.environment[self] = None], r.exc, deepest)

\* SoundSource.connect_speaker(self, speaker)
connect_speaker(h, self, speaker, d) ==
    IF Contains(h.speakers[self], speaker)
    THEN Raise(h, "ValueError", d)
    ELSE LET h1 == [h EXCEPT !.speakers[self] = Append(@, speaker)]
             r == Invoke(h1, speaker, "connect_to_source", self, d + 1)
         IN  CASE r.exc \in {"none", "ValueError"} -> Ret(r.heap, r.depth)
               [] OTHER ->
                    \* except: self._speakers.remove(speaker); raise
                    IF Contains(r.heap.speakers[self], speaker)
                    THEN Raise([r.heap EXCEPT !.speakers[self] = ListRemove(@, speaker)],
                               r.exc, r.depth)
                    ELSE Raise(r.heap, "ValueError", r.depth)

\* a variant of disconnect_speaker that drops every speaker of the source
disconnect_speaker_drop_all(h, self, speaker, d) ==
    IF ~Contains(h.speakers[self], speaker)
    THEN Raise(h, "ValueError", d)
    ELSE LET h1 == [h EXCEPT !.speakers[self] = <<>>]
             r == Invoke(h1, speaker, "disconnect_from_source", self, d + 1)
         IN  CASE r.exc \in {"none", "ValueError"} -> Ret(r.heap, r.depth)
               [] OTHER -> Raise(r.heap, r.exc, r.depth)

\* disconnect_speaker as it would be if it left out the reciprocal call.
disconnect_speaker_oneway(h, self, speaker, d) ==
    IF ~Contains(h.speakers[self], speaker)
    THEN Raise(h, "ValueError", d)
    ELSE Ret([h EXCEPT !.speakers[self] = ListRemove(@, speaker)], d)

\* SoundSource.disconnect_speaker(self, speaker)
disconnect_speaker(h, self, speaker, d) ==
    \* self._speakers.remove(speaker) raises ValueError for an absent speaker
    IF ~Contains(h.speakers[self], speaker)
    THEN Raise(h, "ValueError", d)
    ELSE LET h1 == [h EXCEPT !.speakers[self] = ListRemove(@, speaker)]
             r == Invoke(h1, speaker, "disconnect_from_source", self, d + 1)
         IN  CASE r.exc \in {"none", "ValueError"} -> Ret(r.heap, r.depth)
               [] OTHER -> Raise(r.heap, r.exc, r.depth)

\* disconnect_from_source as it would be if it left out the reciprocal call.
disconnect_from_source_oneway(h, self, src, d) ==
    IF h.source[self] # src
    THEN Raise(h, "ValueError", d)
    ELSE Ret([h EXCEPT !.source[self] = None], d)

\* Speaker.disconnect_from_source(self, src)
disconnect_from_source(h, self, src, d) ==
    IF h.source[self] # src
    THEN Raise(h, "ValueError", d)
    ELSE LET h1 == [h EXCEPT !.source[self] = None]
             r == Invoke(h1, src, "disconnect_speaker", self, d + 1)
         IN  CASE r.exc \in {"none", "ValueError"} -> Ret(r.heap, r.depth)
               [] OTHER -> Raise(r.heap, r.exc, r.depth)

\* connect_to_source as it would be if it did not swallow the reciprocal
\* duplicate error.
connect_to_source_strict(h, self, src, d) ==
    IF src = h.source[self]
    THEN Raise(h, "ValueError", d)
    ELSE LET r0 == IF h.source[self] # None
                   THEN Invoke(h, self, "disconnect_from_source", h.source[self], d + 1)
                   ELSE Ret(h, d)
             h1 == [r0.heap EXCEPT !.source[self] = src]
             r == Invoke(h1, src, "connect_speaker", self, d + 1)
             deepest == IF r.depth > r0.depth THEN r.depth ELSE r0.depth
         IN  CASE r0.exc # "none" -> r0
               [] r.exc = "none" -> Ret(r.heap, deepest)
               [] OTHER -> Raise([r.heap EXCEPT !.source[self] = None], r.exc, deepest)

\* connect_to_source as it would be if it did not leave the previous source.
connect_to_source_keep_old(h, self, src, d) ==
    IF src = h.source[self]
    THEN Raise(h, "ValueError", d)
    ELSE LET h1 == [h EXCEPT !.source[self] = src]
             r == Invoke(h1, src, "connect_speaker", self, d + 1)
         IN  CASE r.exc \in {"none", "ValueError"} -> Ret(r.heap, r.depth)
               [] OTHER -> Raise([r.heap EXCEPT !.source[self] = None], r.exc, r.depth)

\* Speaker.connect_to_source(self, src)
connect_to_source(h, self, src, d) ==
    IF src = h.source[self]
    THEN Raise(h, "ValueError", d)
    ELSE LET \* Disconnect from possible old source.
             r0 == IF h.source[self] # None
                   THEN Invoke(h, self, "disconnect_from_source", h.source[self], d + 1)
                   ELSE Ret(h, d)
             \* Connect new source
             h1 == [r0.heap EXCEPT !.source[self] = src]
             r == Invoke(h1, src, "connect_speaker", self, d + 1)
             deepest == IF r.depth > r0.depth THEN r.depth ELSE r0.depth
         IN  CASE r0.exc # "none" -> r0
               [] r.exc \in {"none", "ValueError"} -> Ret(r.heap, deepest)
               [] OTHER ->
                    \* except: self._source = None; raise
                    Raise([r.heap EXCEPT !.source[self] = None], r.exc, deepest)

\* The call recv.m(arg) made from a frame at depth d - 1: the interpreter
\* refuses a frame beyond its recursion limit, attribute lookup fails when
\* the receiver's class does not define m, and otherwise the method runs.
Invoke(h, recv, m, arg, d) ==
    IF ~HasMethod(recv, m) THEN Raise(h, "AttributeError", d - 1)
    ELSE IF d > RecursionLimit THEN Raise(h, "RuntimeError", d - 1)
    ELSE IF m \in Overrides(recv[1]) THEN Raise(h, "IOError", d)
    ELSE CASE m = "add_object" -> add_object(h, recv, arg, d)
           [] m = "remove_object" -> remove_object(h, recv, arg, d)
           [] m = "add_to_environment" -> add_to_environment(h, recv, arg, d)
           [] m = "remove_from_environment" -> remove_from_environment(h, recv, arg, d)
           [] m = "connect_speaker" -> connect_speaker(h, recv, arg, d)
           [] m = "disconnect_speaker" -> disconnect_speaker(h, recv, arg, d)
           [] m = "connect_to_source" -> connect_to_source(h, recv, arg, d)
           [] m = "disconnect_from_source" -> disconnect_from_source(h, recv, arg, d)

\* Environment.add_objects(self, objects): add_object for each element in
\* turn; the first exception ends the loop and leaves the call.
RECURSIVE add_objects(_, _, _, _)
add_objects(h, self, objs, d) ==
    IF objs = <<>> THEN Ret(h, d)
    ELSE LET r == Invoke(h, self, "add_object", Head(objs), d + 1)
             rest == add_objects(r.heap, self, Tail(objs), d)
         IN  IF r.exc # "none" THEN r
             ELSE [rest EXCEPT !.depth = IF r.depth > @ THEN r.depth ELSE @]

\* ----------------------------------------------------------- the actions
\* A completed top-level call: the heap becomes what the call left behind
\* and the call and its outcome are recorded.
Finish(op, self, arg, r) ==
    /\ objects' = r.heap.objects
    /\ environment' = r.heap.environment
    /\ speakers' = r.heap.speakers
    /\ source' = r.heap.source
    /\ last' = [op |-> op, self |-> self, arg |-> arg, exc |-> r.exc, depth |-> r.depth]
    /\ pre' = Heap
    /\ UNCHANGED scene

\* the classes of the speakers: speakers.Speaker and its subclass
SpeakerClasses == {"Speaker", "LockedSpeaker"}

\* The fields of the scene that the link methods neither read nor write, as
\* the constructors leave them for the entities S with default arguments.
\* objects.SimpleObject.__init__ sets every component to 0.; the SimpleObject
\* of environments.py, the base of the Speaker, stores its arguments as they
\* are, None by default: a component that is None is missing from the domain.
\* Only a speaker (or microphone) has an amplification, 1.0 by default.
SceneInit(S) ==
    /\ position = [o \in S |-> IF o[1] \in SpeakerClasses THEN <<>> ELSE <<0, 0, 0>>]
    /\ orientation = [o \in S |-> IF o[1] \in SpeakerClasses THEN <<>> ELSE <<0, 0, 0>>]
    /\ amplification = [o \in {x \in S : x[1] \in SpeakerClasses \cup {"Microphone"}} |->
                            <<1, 1>>]
    /\ medium = [e \in SimpleEnvs |-> <<"SimpleMedium", 1>>]
    /\ speed_of_sound = [m \in Mediums |-> <<3313, 10>>]

Init ==
    /\ objects = [e \in Envs |-> <<>>]
    /\ environment = [o \in Placed |-> None]
    /\ speakers = [s \in Sources |-> <<>>]
    /\ source = [k \in Speakers |-> None]
    /\ last = [op |-> "init", self |-> None, arg |-> None, exc |-> "none", depth |-> 0]
    /\ pre = Heap
    /\ SceneInit(Placed)

\* sequences over S of length at most n
RECURSIVE SeqsUpTo(_, _)
SeqsUpTo(S, n) ==
    IF n = 0 THEN {<<>>}
    ELSE LET shorter == SeqsUpTo(S, n - 1)
         IN  shorter \cup {Append(q, x) : q \in shorter, x \in S}

AddObject ==
    \E e \in Envs, x \in ObjectArgs :
        Finish("add_object", e, x, Invoke(Heap, e, "add_object", x, 1))

AddObjects ==
    \E e \in Envs, xs \in SeqsUpTo(BatchArgs, MaxBatch) :
        Finish("add_objects", e, xs, add_objects(Heap, e, xs, 1))

RemoveObject ==
    \E e \in Envs, x \in ObjectArgs :
        Finish("remove_object", e, x, Invoke(Heap, e, "remove_object", x, 1))

AddToEnvironment ==
    \E o \in Placed, x \in EnvArgs :
        Finish("add_to_environment", o, x, Invoke(Heap, o, "add_to_environment", x, 1))

RemoveFromEnvironment ==
    \E o \in Placed, x \in EnvArgs :
        Finish("remove_from_environment", o, x,
               Invoke(Heap, o, "remove_from_environment", x, 1))

ConnectSpeaker ==
    \E s \in Sources, x \in SpeakerArgs :
        Finish("connect_speaker", s, x, Invoke(Heap, s, "connect_speaker", x, 1))

DisconnectSpeaker ==
    \E s \in Sources, x \in SpeakerArgs :
        Finish("disconnect_speaker", s, x, Invoke(Heap, s, "disconnect_speaker", x, 1))

ConnectToSource ==
    \E k \in Speakers, x \in SourceArgs :
        Finish("connect_to_source", k, x, Invoke(Heap, k, "connect_to_source", x, 1))

DisconnectFromSource ==
    \E k \in Speakers, x \in SourceArgs :
        Finish("disconnect_from_source", k, x,
               Invoke(Heap, k, "disconnect_from_source", x, 1))

Next ==
    \/ AddObject
    \/ AddObjects
    \/ RemoveObject
    \/ AddToEnvironment
    \/ RemoveFromEnvironment
    \/ ConnectSpeaker
    \/ DisconnectSpeaker
    \/ ConnectToSource
    \/ DisconnectFromSource

Spec == Init /\ [][Next]_vars

\* ------------------------------------------------------------- numbers
\* A float is modelled exactly, as a fraction <<numerator, denominator>> in
\* lowest terms with a positive denominator; NaN stands for the non-finite
\* results (nan, inf) of numpy's float arithmetic.
NaN == <<0, 0>>

Abs(n) == IF n < 0 THEN -n ELSE n

RECURSIVE GCD(_, _)
GCD(a, b) == IF b = 0 THEN a ELSE GCD(b, a % b)

Rat(n, d) ==
    IF d = 0 THEN NaN
    ELSE LET g == GCD(Abs(n), Abs(d))
             sgn == IF d < 0 THEN -1 ELSE 1
         IN  <<(sgn * n) \div g, (sgn * d) \div g>>

FromInt(n) == <<n, 1>>
IsNaN(a) == a[2] = 0
RAdd(a, b) == IF IsNaN(a) \/ IsNaN(b) THEN NaN
              ELSE Rat(a[1] * b[2] + b[1] * a[2], a[2] * b[2])
RSub(a, b) == IF IsNaN(a) \/ IsNaN(b) THEN NaN
              ELSE Rat(a[1] * b[2] - b[1] * a[2], a[2] * b[2])
RMul(a, b) == IF IsNaN(a) \/ IsNaN(b) THEN NaN ELSE Rat(a[1] * b[1], a[2] * b[2])
\* a / b; division by zero gives a non-finite value and no exception
RDiv(a, b) == IF IsNaN(a) \/ IsNaN(b) THEN NaN ELSE Rat(a[1] * b[2], a[2] * b[1])
\* a > 0 (False for nan)
RPositive(a) == a[2] > 0 /\ a[1] > 0

\* np.sqrt of a non-negative integer whose root is an integer
ISqrt(n) == CHOOSE k \in 0..n : k * k = n

\* sin and cos of an angle given in degrees, for the multiples of 90 degrees
SinDeg(a) == CASE a % 360 = 0 -> 0 [] a % 360 = 90 -> 1
               [] a % 360 = 180 -> 0 [] a % 360 = 270 -> -1
CosDeg(a) == SinDeg(a + 90)

\* ----------------------------------------------------- arrays and results
\* the arrays a * k, a / k, a - k and a + b, element by element
Scaled(a, k) == [i \in 1..Len(a) |-> RMul(a[i], k)]
Divided(a, k) == [i \in 1..Len(a) |-> RDiv(a[i], k)]
Shifted(a, k) == [i \in 1..Len(a) |-> RSub(a[i], k)]
Summed(a, b) == [i \in 1..Len(a) |-> RAdd(a[i], b[i])]
\* np.zeros_like(t)
ZerosLike(t) == [i \in 1..Len(t) |-> FromInt(0)]

\* The outcome of a query: the value it returns or the exception it raises.
Value(v) == [value |-> v, exc |-> "none"]
Fail(e) == [value |-> <<>>, exc |-> e]

\* The outcome of a method that may also write: the state it leaves, next to
\* the value it returns or the exception it raises.
Returned(w, v) == [value |-> v, exc |-> "none", world |-> w]
Raised(w, e) == [value |-> <<>>, exc |-> e, world |-> w]

\* The whole state, which the queries read.
World == [objects |-> objects, environment |-> environment,
          speakers |-> speakers, source |-> source,
          position |-> position, orientation |-> orientation,
          amplification |-> amplification, medium |-> medium,
          speed_of_sound |-> speed_of_sound]

\* environments.py does not compile as it stands: the loop of
\* SimpleEnvironment.get_plane_waves (lines 294-296) has no body. The module
\* imports once the body is completed by a statement that does nothing
\* ("completed"), or once the unfinished method is left out, so that
\* SimpleEnvironment inherits the method of Environment ("dropped").
Builds == {"completed", "dropped"}

\* the state as a call finds it in the given build of the module
Built(b) ==
    [objects |-> objects, environment |-> environment,
     speakers |-> speakers, source |-> source,
     position |-> position, orientation |-> orientation,
     amplification |-> amplification, medium |-> medium,
     speed_of_sound |-> speed_of_sound, build |-> b]

\* ---------------------------------------------------------------- frames
\* 3x3 matrices are triples of rows, vectors are triples; all entries are
\* integers: positions and vectors are whole metres and the angles multiples
\* of 90 degrees, where sine and cosine are -1, 0 or 1.
Dot(a, b) == a[1] * b[1] + a[2] * b[2] + a[3] * b[3]
Col(M, j) == <<M[1][j], M[2][j], M[3][j]>>
MatVec(M, v) == <<Dot(M[1], v), Dot(M[2], v), Dot(M[3], v)>>
MatMul(A, B) == [i \in 1..3 |-> [j \in 1..3 |-> Dot(A[i], Col(B, j))]]
VecAdd(a, b) == <<a[1] + b[1], a[2] + b[2], a[3] + b[3]>>
VecSub(a, b) == <<a[1] - b[1], a[2] - b[2], a[3] - b[3]>>

\* rotation around the z-axis and around the y-axis by `a` degrees
RotZ(a) == << <<CosDeg(a), -SinDeg(a), 0>>,
              <<SinDeg(a),  CosDeg(a), 0>>,
              <<0, 0, 1>> >>
RotY(a) == << <<CosDeg(a), 0, SinDeg(a)>>,
              <<0, 1, 0>>,
              <<-SinDeg(a), 0, CosDeg(a)>> >>
\* the inverse rotations, as the code writes them out
InvRotZ(a) == << << CosDeg(a), SinDeg(a), 0>>,
                 <<-SinDeg(a), CosDeg(a), 0>>,
                 <<0, 0, 1>> >>
InvRotY(a) == << <<CosDeg(a), 0, -SinDeg(a)>>,
                 <<0, 1, 0>>,
                 <<SinDeg(a), 0, CosDeg(a)>> >>

\* a variant that multiplies the three rotations in the opposite order
local_to_global_position_reversed(pos, ori, v) ==
    LET M1 == RotZ(ori[3])
        M2 == RotY(ori[1])
        M3 == RotZ(ori[2])
    IN  VecAdd(pos, MatVec(MatMul(MatMul(M1, M2), M3), v))

\* SimpleObject.local_to_global_position: v1 = v0 + M3*M2*M1 * v, where the
\* frame has position pos = (x0, y0, z0) and orientation
\* ori = (theta, phi, alpha).
local_to_global_position(pos, ori, v) ==
    LET M1 == RotZ(ori[3])
        M2 == RotY(ori[1])
        M3 == RotZ(ori[2])
    IN  VecAdd(pos, MatVec(MatMul(MatMul(M3, M2), M1), v))

\* a variant that applies the inverse rotations in the order of the forward
\* ones
global_to_local_position_same_order(pos, ori, v) ==
    LET M1 == InvRotZ(ori[3])
        M2 == InvRotY(ori[1])
        M3 == InvRotZ(ori[2])
    IN  MatVec(MatMul(MatMul(M3, M2), M1), VecSub(v, pos))

\* SimpleObject.global_to_local_position: v1 = M1*M2*M3 * (v - v0)
global_to_local_position(pos, ori, v) ==
    LET M1 == InvRotZ(ori[3])
        M2 == InvRotY(ori[1])
        M3 == InvRotZ(ori[2])
    IN  MatVec(MatMul(MatMul(M1, M2), M3), VecSub(v, pos))

\* np.arccos(q) in degrees for q = n/r in {-1, 0, 1}; 0/0 is nan
ArcCosDeg(n, r) ==
    CASE r = 0 -> NaN
      [] r # 0 /\ n = r -> FromInt(0)
      [] r # 0 /\ n = 0 -> FromInt(90)
      [] r # 0 /\ n = -r -> FromInt(180)

\* np.arctan2(y, x) in degrees for a point on an axis of the plane
ArcTan2Deg(y, x) ==
    CASE y = 0 /\ x >= 0 -> FromInt(0)
      [] y = 0 /\ x < 0 -> FromInt(180)
      [] y > 0 /\ x = 0 -> FromInt(90)
      [] y < 0 /\ x = 0 -> FromInt(-90)

\* cartesian_to_spherical(x, y, z): theta, phi, r for a point on an axis
cartesian_to_spherical(v) ==
    LET r == ISqrt(v[1] * v[1] + v[2] * v[2] + v[3] * v[3])
    IN  [theta |-> ArcCosDeg(v[3], r), phi |-> ArcTan2Deg(v[2], v[1]), r |-> r]

\* ------------------------------------------ the specification of frames
\* One SimpleObject is moved and turned, and vectors are converted between
\* its local frame and the global one.
Positions == {<<0, 0, 0>>, <<1, -2, 3>>, <<-1, 0, 2>>}
Angles == {0, 90, 180, 270}
Orientations == Angles \X Angles \X Angles
Vectors == {<<1, 0, 0>>, <<0, 1, 0>>, <<0, 0, 1>>, <<2, -1, 3>>}

\* what a call that only reads the state leaves behind: its outcome
Answer(op, self, arg, res) ==
    /\ last' = [op |-> op, self |-> self, arg |-> arg, exc |-> res.exc,
                result |-> res.value]
    /\ pre' = Heap
    /\ UNCHANGED <<links, scene>>

\* what a setter leaves behind
\* what a call leaves behind that returns the state together with its
\* outcome: every field as the method left it
Query(op, self, arg, res) ==
    /\ last' = [op |-> op, self |-> self, arg |-> arg, exc |-> res.exc,
                result |-> res.value, build |-> res.world.build]
    /\ pre' = Heap
    /\ objects' = res.world.objects
    /\ environment' = res.world.environment
    /\ speakers' = res.world.speakers
    /\ source' = res.world.source
    /\ position' = res.world.position
    /\ orientation' = res.world.orientation
    /\ amplification' = res.world.amplification
    /\ medium' = res.world.medium
    /\ speed_of_sound' = res.world.speed_of_sound

Done(op, self, arg) ==
    /\ last' = [op |-> op, self |-> self, arg |-> arg, exc |-> "none",
                result |-> None]
    /\ pre' = Heap
    /\ UNCHANGED links

\* The arguments of a setter: a component the caller leaves out (None) is
\* missing from the domain of the argument, so <<>> is the call without
\* arguments and <<x, y, z>> the call with all three.
PositionArgs == Positions \cup {<<>>, [i \in {2} |-> 2]}
OrientationArgs == Orientations \cup {<<>>, [i \in {3} |-> 90]}

\* SimpleObject.set_position and set_orientation: every component that is
\* given replaces the current one, the others stay.
set_components(cur, given) ==
    [i \in 1..3 |-> IF i \in DOMAIN given THEN given[i] ELSE cur[i]]

\* The set_position(x, y, z, theta, phi) that a Speaker inherits from the
\* SimpleObject of environments.py: the n components of cur that follow the
\* first `shift` arguments; a component is None until it is given.
set_given(cur, given, shift, n) ==
    [i \in {j \in 1..n : j \in DOMAIN cur \/ (j + shift) \in DOMAIN given} |->
        IF (i + shift) \in DOMAIN given THEN given[i + shift] ELSE cur[i]]

FrameSpeakers == {<<"Speaker", 1>>}
SpeakerPositionArgs == {<<>>, [i \in {2} |-> 2], <<1, -2, 3, 90, 0>>}

SpeakerSetPosition(k, g) ==
    /\ position' = [position EXCEPT ![k] = set_given(position[k], g, 0, 3)]
    /\ orientation' = [orientation EXCEPT ![k] = set_given(orientation[k], g, 3, 2)]
    /\ UNCHANGED <<amplification, medium, speed_of_sound>>
    /\ Done("set_position", k, g)

\* the SimpleObject of environments.py has no set_orientation
SpeakerSetOrientation(k, a) ==
    Answer("set_orientation", k, a, Fail("AttributeError"))

SetPosition(o, p) ==
    /\ position' = [position EXCEPT ![o] = set_components(position[o], p)]
    /\ UNCHANGED <<orientation, amplification, medium, speed_of_sound>>
    /\ Done("set_position", o, p)

SetOrientation(o, a) ==
    /\ orientation' = [orientation EXCEPT ![o] = set_components(orientation[o], a)]
    /\ UNCHANGED <<position, amplification, medium, speed_of_sound>>
    /\ Done("set_orientation", o, a)

LocalToGlobalPosition(o, v) ==
    Answer("local_to_global_position", o, v,
           Value(local_to_global_position(position[o], orientation[o], v)))

GlobalToLocalPosition(o, v) ==
    Answer("global_to_local_position", o, v,
           Value(global_to_local_position(position[o], orientation[o], v)))

InitFrame ==
    /\ objects = [e \in Envs |-> <<>>]
    /\ environment = [o \in Placed |-> None]
    /\ speakers = [s \in Sources |-> <<>>]
    /\ source = [k \in Speakers |-> None]
    /\ last = [op |-> "init", self |-> None, arg |-> None, exc |-> "none",
               result |-> None]
    /\ pre = Heap
    /\ SceneInit(Placed)

NextFrame ==
    \/ \E o \in PlainObjects :
        \/ \E p \in PositionArgs : SetPosition(o, p)
        \/ \E a \in OrientationArgs : SetOrientation(o, a)
        \/ \E v \in Vectors : LocalToGlobalPosition(o, v)
        \/ \E v \in Vectors : GlobalToLocalPosition(o, v)
    \/ \E k \in FrameSpeakers :
        \/ \E g \in SpeakerPositionArgs : SpeakerSetPosition(k, g)
        \/ SpeakerSetOrientation(k, [i \in {1} |-> 90])

SpecFrame == InitFrame /\ [][NextFrame]_vars

\* ----------------------------------------- the specification of mediums
\* np.sqrt of a float: nan below zero; the root of a fraction whose numerator
\* and denominator are squares
RSqrt(a) ==
    IF IsNaN(a) \/ a[1] < 0 THEN NaN ELSE Rat(ISqrt(a[1]), ISqrt(a[2]))

\* the speeds of sound [m/s] and the temperatures [deg C] that callers pass;
\* the temperatures are those where 1 + temp/273.15 is 1, 4, 1/4, 0 and -3
DefaultSpeed == <<3313, 10>>
SpeedArgs == {DefaultSpeed, <<1, 1>>, <<2, 1>>, <<0, 1>>, <<-1, 1>>}
TempArgs == {<<0, 1>>, <<16389, 20>>, <<-16389, 80>>, <<-5463, 20>>, <<-5463, 5>>}

\* SimpleMedium.set_speed_of_sound: stores c as it is
set_speed_of_sound(speeds, m, c) == [speeds EXCEPT ![m] = c]

\* SimpleMedium.get_speed_of_sound
get_speed_of_sound(speeds, m) == speeds[m]

\* SimpleAir.set_temperature: c = 331.3 * sqrt(1 + temp/273.15)
set_temperature(speeds, m, temp) ==
    set_speed_of_sound(speeds, m,
        RMul(<<3313, 10>>, RSqrt(RAdd(FromInt(1), RDiv(temp, <<5463, 20>>)))))

\* SimpleMedium(c)
NewSimpleMedium(m, c) ==
    /\ m[1] = "SimpleMedium"
    /\ speed_of_sound' = set_speed_of_sound(speed_of_sound, m, c)
    /\ UNCHANGED <<position, orientation, amplification, medium>>
    /\ Done("SimpleMedium", m, c)

\* SimpleAir(temp): the constructor of SimpleMedium with its default speed,
\* then set_temperature
NewSimpleAir(m, temp) ==
    /\ m[1] = "SimpleAir"
    /\ speed_of_sound' =
           set_temperature(set_speed_of_sound(speed_of_sound, m, DefaultSpeed), m, temp)
    /\ UNCHANGED <<position, orientation, amplification, medium>>
    /\ Done("SimpleAir", m, temp)

SetSpeedOfSound(m, c) ==
    /\ speed_of_sound' = set_speed_of_sound(speed_of_sound, m, c)
    /\ UNCHANGED <<position, orientation, amplification, medium>>
    /\ Done("set_speed_of_sound", m, c)

SetTemperature(m, temp) ==
    /\ m[1] = "SimpleAir"
    /\ speed_of_sound' = set_temperature(speed_of_sound, m, temp)
    /\ UNCHANGED <<position, orientation, amplification, medium>>
    /\ Done("set_temperature", m, temp)

GetSpeedOfSound(m) ==
    Answer("get_speed_of_sound", m, None, Value(get_speed_of_sound(speed_of_sound, m)))

\* Both mediums start as their constructors with default arguments leave
\* them: SimpleMedium() and SimpleAir(), 331.3 m/s.
InitMedium ==
    /\ InitFrame
    /\ speed_of_sound[<<"SimpleAir", 1>>] =
           get_speed_of_sound(set_temperature(speed_of_sound, <<"SimpleAir", 1>>, FromInt(0)),
                              <<"SimpleAir", 1>>)

NextMedium ==
    \E m \in Mediums :
        \/ \E c \in SpeedArgs : NewSimpleMedium(m, c)
        \/ \E temp \in TempArgs : NewSimpleAir(m, temp)
        \/ \E c \in SpeedArgs : SetSpeedOfSound(m, c)
        \/ \E temp \in TempArgs : SetTemperature(m, temp)
        \/ GetSpeedOfSound(m)

SpecMedium == InitMedium /\ [][NextMedium]_vars

\* ------------------------------------------------------- the signal chain
\* np.sin(2*np.pi*x) where x is a whole number of quarter turns; nan for nan
SinTurns(x) ==
    IF IsNaN(x) THEN NaN
    ELSE LET q == RMul(FromInt(4), x)
         IN  CASE q[2] = 1 -> FromInt(SinDeg(90 * (q[1] % 4)))

\* the parameters of a SineSource: SineSource(freq=0.5, amp=3.0, phi=0.0);
\* the phase is kept in turns (phi / 2 pi)
SineParams(s) == [frequency |-> <<1, 2>>, amplitude |-> <<3, 1>>, phase |-> <<0, 1>>]

\* SineSource.get_sound_signal: amp * sin(2*pi*freq*t + phase)
SineSource_get_sound_signal(s, t) ==
    Value([i \in 1..Len(t) |->
              RMul(SineParams(s).amplitude,
                   SinTurns(RAdd(RMul(SineParams(s).frequency, t[i]),
                                 SineParams(s).phase)))])

\* SoundSource.get_sound_signal: the call of the misspelt name `warnigns`
\* raises NameError before anything is returned
SoundSource_get_sound_signal(s, t) == Fail("NameError")

get_sound_signal(s, t) ==
    IF s[1] = "SineSource" THEN SineSource_get_sound_signal(s, t)
    ELSE SoundSource_get_sound_signal(s, t)

\* a variant of get_sound_wave that leaves the amplification out
get_sound_wave_unscaled(w, self, t, theta, phi) ==
    IF w.source[self] = None THEN Fail("AttributeError")
    ELSE get_sound_signal(w.source[self], t)

\* Speaker.get_sound_wave:
\*   return self.get_source().get_sound_signal(t) * self.get_amplification()
\* With no source, get_source() is None and the attribute lookup on it
\* raises AttributeError.
get_sound_wave(w, self, t, theta, phi) ==
    IF w.source[self] = None THEN Fail("AttributeError")
    ELSE LET r == get_sound_signal(w.source[self], t)
         IN  IF r.exc # "none" THEN r ELSE Value(Scaled(r.value, w.amplification[self]))

\* isinstance(o, typ). There are two classes SimpleObject: the one of
\* objects.py ("SimpleObject"), the base of the Microphone, and the one of
\* environments.py ("environments.SimpleObject"), the base of the Speaker
\* and the default kind of get_objects; neither is a subclass of the other.
IsInstance(o, typ) ==
    \/ o[1] = typ
    \/ typ = "SimpleObject" /\ o[1] \in {"Microphone", "LockedObject"}
    \/ typ = "environments.SimpleObject" /\ o[1] \in {"Speaker", "LockedSpeaker"}
    \/ typ = "Speaker" /\ o[1] = "LockedSpeaker"

\* a variant of get_objects that drops the other objects from the list of
\* the environment instead of building a new list
get_objects_in_place(w, self, typ) ==
    LET kept == SelectSeq(w.objects[self], LAMBDA o : IsInstance(o, typ))
    IN  Returned([w EXCEPT !.objects[self] = kept], kept)

\* Environment.get_objects: [o for o in self._objects if isinstance(o, typ)],
\* a new list; nothing is assigned
get_objects(w, self, typ) ==
    Returned(w, SelectSeq(w.objects[self], LAMBDA o : IsInstance(o, typ)))

\* SimpleEnvironment.get_plane_waves as src has it:
\*     waves = []
\*     for spk in self.get_objects(speakers.Speaker):
\*         (no body)
\*     return
\* With the loop completed by nothing the method returns None, whatever the
\* speakers are; left out, the method is the one of Environment.
SimpleEnvironment_get_plane_waves(w, self, t, pt) ==
    IF w.build = "dropped" THEN Raised(w, "NameError")
    ELSE LET spks == get_objects(w, self, "Speaker")
         IN  Returned(spks.world, None)

\* Environment.get_plane_waves: the call of the misspelt name `warnigns`
\* raises NameError before the empty list is returned
Environment_get_plane_waves(w, self, t, pt) == Raised(w, "NameError")

\* the records (t, 0., 0., spk.get_sound_wave(t, 0., 0.)) of the speakers
\* spks; the first failing get_sound_wave ends the comprehension
RECURSIVE direct_waves(_, _, _)
direct_waves(w, spks, t) ==
    IF spks = <<>> THEN Value(<<>>)
    ELSE LET wave == get_sound_wave(w, Head(spks), t, FromInt(0), FromInt(0))
             rest == direct_waves(w, Tail(spks), t)
         IN  IF wave.exc # "none" THEN wave
             ELSE IF rest.exc # "none" THEN rest
             ELSE Value(<< <<t, FromInt(0), FromInt(0), wave.value>> >> \o rest.value)

\* DirectEnvironment.get_plane_waves, the override of the user's class
DirectEnvironment_get_plane_waves(w, self, t, pt) ==
    LET spks == get_objects(w, self, "Speaker")
        waves == direct_waves(spks.world, spks.value, t)
    IN  IF waves.exc # "none" THEN Raised(spks.world, waves.exc)
        ELSE Returned(spks.world, waves.value)

\* self.get_plane_waves(t, x, y, z): the method of the class of self
get_plane_waves(w, self, t, pt) ==
    CASE self[1] = "SimpleEnvironment" -> SimpleEnvironment_get_plane_waves(w, self, t, pt)
      [] self[1] = "DirectEnvironment" -> DirectEnvironment_get_plane_waves(w, self, t, pt)
      [] OTHER -> Environment_get_plane_waves(w, self, t, pt)

\* signal += p for every wave (tt, theta, phi, p) of the list
RECURSIVE add_waves(_, _)
add_waves(signal, waves) ==
    IF waves = <<>> THEN signal
    ELSE add_waves(Summed(signal, Head(waves)[4]), Tail(waves))

\* a variant of get_pressure_signal that adds only the first wave
get_pressure_signal_first_only(w, self, t, pt) ==
    LET waves == get_plane_waves(w, self, t, pt)
    IN  IF waves.exc # "none" THEN waves
        ELSE IF waves.value = None THEN Raised(waves.world, "TypeError")
        ELSE IF waves.value = <<>> THEN Returned(waves.world, ZerosLike(t))
        ELSE Returned(waves.world, add_waves(ZerosLike(t), <<Head(waves.value)>>))

\* Environment.get_pressure_signal: the sum of the p of all plane waves;
\* `for tt, theta, phi, p in waves` raises TypeError when waves is None
get_pressure_signal(w, self, t, pt) ==
    LET waves == get_plane_waves(w, self, t, pt)
    IN  IF waves.exc # "none" THEN waves
        ELSE IF waves.value = None THEN Raised(waves.world, "TypeError")
        ELSE Returned(waves.world, add_waves(ZerosLike(t), waves.value))

\* a variant of get_voltage_signal that leaves the amplification out
get_voltage_signal_unscaled(w, self, t) ==
    IF w.environment[self] = None THEN Raised(w, "not placed in an environment")
    ELSE get_pressure_signal(w, w.environment[self], t, w.position[self])

\* Microphone.get_voltage_signal: the pressure signal of its environment at
\* its own position, times its amplification
get_voltage_signal(w, self, t) ==
    IF w.environment[self] = None THEN Raised(w, "not placed in an environment")
    ELSE LET r == get_pressure_signal(w, w.environment[self], t, w.position[self])
         IN  IF r.exc # "none" THEN r
             ELSE Returned(r.world, Scaled(r.value, w.amplification[self]))

\* ------------------------------------ the specification of the signal chain
\* A SimpleEnvironment and a DirectEnvironment, which two speakers and a
\* microphone enter and leave, a sine source, and an empty Environment of
\* the base class.
SignalHosts == SimpleEnvs \cup DirectEnvs
SignalEnvs == SignalHosts \cup {<<"Environment", 1>>}
SignalObjects == Speakers \cup Mics
\* time grids [s], observation points [m], directions (theta, phi) [deg]
TimeGrids == {<<>>, << <<0, 1>>, <<1, 2>>, <<1, 1>> >>}
Points == {<<4, 0, 0>>}
Directions == {<< <<0, 1>>, <<0, 1>> >>, << <<90, 1>>, <<180, 1>> >>}
AmplificationArgs == {<<2, 1>>}

\* a call of a method that changes links
Call(recv, m, arg) == Finish(m, recv, arg, Invoke(Heap, recv, m, arg, 1))

\* Speaker.set_amplification
SetAmplification(o, a) ==
    /\ amplification' = [amplification EXCEPT ![o] = a]
    /\ UNCHANGED <<position, orientation, medium, speed_of_sound>>
    /\ Done("set_amplification", o, a)

GetSoundWave(k, t, dir) ==
    Answer("get_sound_wave", k, <<t, dir>>, get_sound_wave(World, k, t, dir[1], dir[2]))

GetPlaneWaves(e, t, pt) ==
    \E b \in Builds :
        Query("get_plane_waves", e, <<t, pt>>, get_plane_waves(Built(b), e, t, pt))

GetPressureSignal(e, t, pt) ==
    \E b \in Builds :
        Query("get_pressure_signal", e, <<t, pt>>,
              get_pressure_signal(Built(b), e, t, pt))

\* the kinds that get_objects is asked for; <<>> is the call without a kind,
\* which asks for the default, the SimpleObject of environments.py
Kinds == {<<>>, <<"Speaker">>, <<"SimpleObject">>}
KindOf(arg) == IF arg = <<>> THEN "environments.SimpleObject" ELSE arg[1]

GetObjects(e, kind) ==
    \E b \in Builds :
        Query("get_objects", e, kind, get_objects(Built(b), e, KindOf(kind)))

GetVoltageSignal(mic, t) ==
    \E b \in Builds :
        Query("get_voltage_signal", mic, <<t>>, get_voltage_signal(Built(b), mic, t))

\* E = SimpleEnvironment(SimpleMedium(1.0)); DirectEnvironment();
\* Speaker(x=0., y=0., z=0., theta=0., phi=0.),
\* Speaker(amplification=2.0, x=2., y=0., z=0., theta=0., phi=0.),
\* Microphone(amplification=3.0, x=2.),
\* SineSource(0.5, 3.0), Environment()
InitSignal ==
    /\ objects = [e \in SignalEnvs |-> <<>>]
    /\ environment = [o \in SignalObjects |-> None]
    /\ speakers = [s \in SineSources |-> <<>>]
    /\ source = [k \in Speakers |-> None]
    /\ last = [op |-> "init", self |-> None, arg |-> None, exc |-> "none",
               result |-> None]
    /\ pre = Heap
    /\ position = [o \in SignalObjects |->
                      IF o = <<"Speaker", 1>> THEN <<0, 0, 0>> ELSE <<2, 0, 0>>]
    /\ orientation = [o \in SignalObjects |->
                         IF o \in Speakers THEN <<0, 0>> ELSE <<0, 0, 0>>]
    /\ amplification = [o \in SignalObjects |->
                          CASE o = <<"Speaker", 2>> -> <<2, 1>>
                            [] o \in Mics -> <<3, 1>>
                            [] OTHER -> <<1, 1>>]
    /\ medium = [e \in SimpleEnvs |-> <<"SimpleMedium", 1>>]
    /\ speed_of_sound = [m \in Mediums |->
                            IF m[1] = "SimpleMedium" THEN <<1, 1>> ELSE DefaultSpeed]

NextSignal ==
    \/ \E e \in SignalHosts, o \in SignalObjects : Call(e, "add_object", o)
    \/ \E e \in SignalHosts, o \in SignalObjects : Call(e, "remove_object", o)
    \/ \E k \in Speakers, s \in SineSources : Call(k, "connect_to_source", s)
    \/ \E k \in Speakers, s \in SineSources : Call(k, "disconnect_from_source", s)
    \/ \E k \in Speakers, a \in AmplificationArgs : SetAmplification(k, a)
    \/ \E k \in Speakers, t \in TimeGrids, dir \in Directions : GetSoundWave(k, t, dir)
    \/ \E e \in SignalEnvs, t \in TimeGrids, pt \in Points : GetPlaneWaves(e, t, pt)
    \/ \E e \in SignalEnvs, t \in TimeGrids, pt \in Points : GetPressureSignal(e, t, pt)
    \/ \E mic \in Mics, t \in TimeGrids : GetVoltageSignal(mic, t)
    \/ \E e \in SignalHosts, kind \in Kinds : GetObjects(e, kind)

SpecSignal == InitSignal /\ [][NextSignal]_vars

\* ------------------------------------- the specification of failing peers
\* Environments, objects, sources and speakers next to subclasses of them
\* whose removing or disconnecting method raises IOError; None stands for a
\* call without a peer.
FaultyEnvs == {<<"Environment", 1>>, <<"LockedEnvironment", 1>>}
FaultyObjects == {<<"SimpleObject", 1>>, <<"LockedObject", 1>>}
FaultySources == {<<"SoundSource", 1>>, <<"LockedSource", 1>>}
FaultySpeakers == {<<"Speaker", 1>>, <<"LockedSpeaker", 1>>}

InitFaulty ==
    /\ objects = [e \in FaultyEnvs |-> <<>>]
    /\ environment = [o \in FaultyObjects \cup FaultySpeakers |-> None]
    /\ speakers = [s \in FaultySources |-> <<>>]
    /\ source = [k \in FaultySpeakers |-> None]
    /\ last = [op |-> "init", self |-> None, arg |-> None, exc |-> "none", depth |-> 0]
    /\ pre = Heap
    /\ SceneInit(FaultyObjects \cup FaultySpeakers)

NextFaulty ==
    \/ \E e \in FaultyEnvs, o \in FaultyObjects : Call(e, "add_object", o)
    \/ \E e \in FaultyEnvs, o \in FaultyObjects : Call(e, "remove_object", o)
    \/ \E o \in FaultyObjects, e \in FaultyEnvs : Call(o, "add_to_environment", e)
    \/ \E o \in FaultyObjects, e \in FaultyEnvs \cup {None} :
           Call(o, "remove_from_environment", e)
    \/ \E s \in FaultySources, k \in FaultySpeakers : Call(s, "connect_speaker", k)
    \/ \E s \in FaultySources, k \in FaultySpeakers : Call(s, "disconnect_speaker", k)
    \/ \E k \in FaultySpeakers, s \in FaultySources : Call(k, "connect_to_source", s)
    \/ \E k \in FaultySpeakers, s \in FaultySources \cup {None} :
           Call(k, "disconnect_from_source", s)

SpecFaulty == InitFaulty /\ [][NextFaulty]_vars

\* ------------------------------------------------- default arguments
\* Two environments constructed as SimpleEnvironment(). The default of the
\* parameter `medium` is evaluated once, when the class is defined, so both
\* constructors receive the same SimpleMedium object; Environment.__init__
\* assigns a new list to _objects, whatever its default argument is.
DefaultEnvs == {<<"SimpleEnvironment", 1>>, <<"SimpleEnvironment", 2>>}
DefaultMedium == <<"SimpleMedium", 1>>
\* the medium that set_medium is called with: a SimpleMedium(2.0); an
\* environment whose medium is DefaultMedium has the one it was constructed
\* with
MediumArgs == {<<"SimpleMedium", 2>>}
DefaultObjects == {<<"SimpleObject", 1>>, <<"Speaker", 1>>}

InitDefaults ==
    /\ objects = [e \in DefaultEnvs |-> <<>>]
    /\ environment = [o \in DefaultObjects |-> None]
    /\ speakers = [s \in Sources |-> <<>>]
    /\ source = [k \in Speakers |-> None]
    /\ last = [op |-> "init", self |-> None, arg |-> None, exc |-> "none",
               result |-> None]
    /\ pre = Heap
    /\ position = [o \in DefaultObjects |->
                      IF o \in Speakers THEN <<>> ELSE <<0, 0, 0>>]
    /\ orientation = [o \in DefaultObjects |->
                         IF o \in Speakers THEN <<>> ELSE <<0, 0, 0>>]
    /\ amplification = [o \in DefaultObjects \ PlainObjects |-> <<1, 1>>]
    /\ medium = [e \in DefaultEnvs |-> DefaultMedium]
    /\ speed_of_sound = [m \in {DefaultMedium} \cup MediumArgs |->
                            IF m = DefaultMedium THEN DefaultSpeed ELSE <<2, 1>>]

\* SimpleEnvironment.set_medium
set_medium(media, self, m) == [media EXCEPT ![self] = m]

SetMedium(e, m) ==
    /\ medium' = set_medium(medium, e, m)
    /\ UNCHANGED <<position, orientation, amplification, speed_of_sound>>
    /\ Done("set_medium", e, m)

\* E._medium.set_speed_of_sound(c)
SetSpeedOfSoundOfMedium(e, c) == SetSpeedOfSound(medium[e], c)

NextDefaults ==
    \/ \E e \in DefaultEnvs, o \in DefaultObjects : Call(e, "add_object", o)
    \/ \E e \in DefaultEnvs, o \in DefaultObjects : Call(e, "remove_object", o)
    \/ \E e \in DefaultEnvs, c \in SpeedArgs : SetSpeedOfSoundOfMedium(e, c)
    \/ \E e \in DefaultEnvs, m \in MediumArgs : SetMedium(e, m)

SpecDefaults == InitDefaults /\ [][NextDefaults]_vars

\* ------------------------------------------------- listing the objects
\* The membership calls of Spec together with get_objects, on environments
\* that hold plain objects (objects.SimpleObject) and speakers.
NextObjects ==
    \/ AddObject
    \/ RemoveObject
    \/ AddToEnvironment
    \/ RemoveFromEnvironment
    \/ \E e \in Envs, kind \in Kinds : GetObjects(e, kind)

SpecObjects == Init /\ [][NextObjects]_vars

\* ------------------------------------------------------------ the claims
\* The last call was self.op(arg) for one of the given methods.
Called(ops) == last.op \in ops
Succeeded == last.exc = "none"

\* Every position at which an environment lists the object o.
Listings(h, o) ==
    UNION {{<<e, i>> : i \in {j \in 1..Len(h.objects[e]) : h.objects[e][j] = o}} :
           e \in Envs}

\* The environment and the object of the last add/remove call, whichever
\* endpoint was called.
CallEnv == IF last.op \in {"add_object", "remove_object"} THEN last.self ELSE last.arg
CallObj == IF last.op \in {"add_object", "remove_object"} THEN last.arg ELSE last.self
\* The source and the speaker of the last connect/disconnect call.
CallSrc == IF last.op \in {"connect_speaker", "disconnect_speaker"}
           THEN last.self ELSE last.arg
CallSpk == IF last.op \in {"connect_speaker", "disconnect_speaker"}
           THEN last.arg ELSE last.self

\* C1: after every completed top-level membership call, whether it returned
\* or raised, every entry of an environment's object collection is a placed
\* object whose environment back-reference is that environment.
C1_BackReference ==
    \A e \in Envs : \A i \in 1..Len(objects[e]) :
        /\ objects[e][i] \in Placed
        /\ environment[objects[e][i]] = e

\* An add_objects call that added its first element and raised on the second.
C1_Witness ==
    /\ last.op = "add_objects"
    /\ last.exc = "ValueError"
    /\ objects # pre.objects
    /\ \E e \in Envs : Len(objects[e]) = 2

\* C2: every object is listed by at most one environment, and at most once.
C2_SingleMembership ==
    \A o \in Placed : Cardinality(Listings(Heap, o)) <= 1

\* An object that was listed by one environment was added to another one,
\* which already held a member.
C2_Witness ==
    /\ Called({"add_object", "add_to_environment"})
    /\ Succeeded
    /\ CallEnv \in Envs /\ CallObj \in Placed
    /\ \E e \in Envs \ {CallEnv} : Contains(pre.objects[e], CallObj)
    /\ Len(objects[CallEnv]) = 2

\* C3: when a member A of environment E is added to another environment F,
\* through either endpoint, the call returns, A's environment is F, F lists
\* A exactly once and no other environment lists A.
C3_MoveBetweenEnvironments ==
    (/\ Called({"add_object", "add_to_environment"})
     /\ CallEnv \in Envs /\ CallObj \in Placed
     /\ \E e \in Envs \ {CallEnv} : Contains(pre.objects[e], CallObj))
    => /\ Succeeded
       /\ environment[CallObj] = CallEnv
       /\ Count(objects[CallEnv], CallObj) = 1
       /\ \A e \in Envs \ {CallEnv} : ~Contains(objects[e], CallObj)

\* F.add_object(A) moved A out of E.
C3_Witness ==
    /\ last.op = "add_object"
    /\ CallObj \in Placed
    /\ \E e \in Envs \ {CallEnv} : Contains(pre.objects[e], CallObj)
    /\ environment[CallObj] = CallEnv

\* C4: adding an object to an environment that already lists it raises
\* ValueError, and removing an object from an environment that does not list
\* it raises ValueError, whichever endpoint is called.
C4_DuplicateAndMissingRaise ==
    /\ (/\ Called({"add_object", "add_to_environment"})
        /\ CallEnv \in Envs
        /\ Contains(pre.objects[CallEnv], CallObj))
       => last.exc = "ValueError"
    /\ (/\ Called({"remove_object", "remove_from_environment"})
        /\ ~(CallEnv \in Envs /\ Contains(pre.objects[CallEnv], CallObj)))
       => last.exc = "ValueError"

\* An object tried to join the environment it is in; the environment still
\* lists it.
C4_Witness ==
    /\ last.op = "add_to_environment"
    /\ last.exc = "ValueError"
    /\ CallEnv \in Envs
    /\ Contains(objects[CallEnv], CallObj)

\* C5: one logical connect establishes both sides, whichever endpoint is
\* called.  A call that links a placed object and an environment that were
\* not linked, or a speaker and a source that were not linked, returns
\* without an error (the reciprocal duplicate error is swallowed); and after
\* any such call that returned, the collection lists the member and the
\* member's back-reference names the owner.
C5_ConnectEstablishesBothSides ==
    /\ Called({"add_object", "add_to_environment"}) =>
         /\ (/\ CallEnv \in Envs /\ CallObj \in Placed
             /\ ~Contains(pre.objects[CallEnv], CallObj)) => Succeeded
         /\ Succeeded => /\ CallEnv \in Envs /\ CallObj \in Placed
                         /\ Contains(objects[CallEnv], CallObj)
                         /\ environment[CallObj] = CallEnv
    /\ Called({"connect_speaker", "connect_to_source"}) =>
         /\ (/\ CallSrc \in Sources /\ CallSpk \in Speakers
             /\ ~Contains(pre.speakers[CallSrc], CallSpk)) => Succeeded
         /\ Succeeded => /\ CallSrc \in Sources /\ CallSpk \in Speakers
                         /\ Contains(speakers[CallSrc], CallSpk)
                         /\ source[CallSpk] = CallSrc

\* src.connect_speaker(s) returned although the reciprocal
\* s.connect_to_source(src) called back into src.connect_speaker(s), which
\* raised the duplicate error two frames further down.
C5_Witness ==
    /\ last.op = "connect_speaker"
    /\ Succeeded
    /\ last.depth >= 3
    /\ source[CallSpk] = CallSrc

\* C6: no top-level call runs into the interpreter's recursion limit: each
\* ends in a return, a ValueError or an AttributeError; and the chain of
\* nested reciprocal calls that add_object, add_to_environment, remove_object,
\* remove_from_environment, connect_speaker, connect_to_source,
\* disconnect_speaker or disconnect_from_source makes is at most five frames
\* deep.
C6_CallChainsEnd ==
    /\ last.exc \in {"none", "ValueError", "AttributeError"}
    /\ last.depth < RecursionLimit
    /\ Called({"add_object", "add_to_environment", "remove_object",
               "remove_from_environment", "connect_speaker", "connect_to_source",
               "disconnect_speaker", "disconnect_from_source"}) => last.depth <= 5

\* The longest chain: F.add_object(A) for a member A of E runs
\* A.add_to_environment(F), A.remove_from_environment(E), E.remove_object(A)
\* and A.remove_from_environment(E) again before the last one raises.
C6_Witness ==
    /\ last.op = "add_object"
    /\ Succeeded
    /\ last.depth = 5

\* C7: when the reciprocal call of an add/connect call fails with an error
\* other than the duplicate error, the error is re-raised and the caller's
\* own link is as it was before the call: a collection lists what it listed,
\* and an object (speaker) that was in an environment (connected to a
\* source) still names it and is still listed by it.
C7_RollbackRestoresLink ==
    (/\ Called({"add_object", "add_to_environment",
                "connect_speaker", "connect_to_source"})
     /\ last.exc \notin {"none", "ValueError"})
    => CASE last.op = "add_object" -> objects[last.self] = pre.objects[last.self]
         [] last.op = "connect_speaker" -> speakers[last.self] = pre.speakers[last.self]
         [] last.op = "add_to_environment" ->
              /\ environment[last.self] = pre.environment[last.self]
              /\ pre.environment[last.self] \in Envs =>
                   Contains(objects[pre.environment[last.self]], last.self)
         [] last.op = "connect_to_source" ->
              /\ source[last.self] = pre.source[last.self]
              /\ pre.source[last.self] \in Sources =>
                   Contains(speakers[pre.source[last.self]], last.self)

\* C8: a remove/disconnect call raises ValueError when the caller has no
\* link to the peer; otherwise it returns and afterwards neither side
\* references the other.
C8_DisconnectClearsBothSides ==
    /\ Called({"remove_object", "remove_from_environment"}) =>
         LET linked == IF last.op = "remove_object"
                       THEN Contains(pre.objects[last.self], last.arg)
                       ELSE pre.environment[last.self] = last.arg
         IN  /\ ~linked => last.exc = "ValueError"
             /\ linked => /\ Succeeded
                          /\ environment[CallObj] = None
                          /\ ~Contains(objects[CallEnv], CallObj)
    /\ Called({"disconnect_speaker", "disconnect_from_source"}) =>
         LET linked == IF last.op = "disconnect_speaker"
                       THEN Contains(pre.speakers[last.self], last.arg)
                       ELSE pre.source[last.self] = last.arg
         IN  /\ ~linked => last.exc = "ValueError"
             /\ linked => /\ Succeeded
                          /\ source[CallSpk] = None
                          /\ ~Contains(speakers[CallSrc], CallSpk)

\* src.disconnect_speaker(s) for a connected speaker returned.
C8_Witness ==
    /\ last.op = "disconnect_speaker"
    /\ Succeeded
    /\ Contains(pre.speakers[CallSrc], CallSpk)
    /\ source[CallSpk] = None

\* C9: a source lists exactly the speakers whose source reference names it,
\* each once, so that every speaker is listed by at most one source; a source
\* may list several speakers.
C9_SpeakerSourceAgree ==
    \A s \in Sources :
        /\ \A i \in 1..Len(speakers[s]) : speakers[s][i] \in Speakers
        /\ \A k \in Speakers :
              Count(speakers[s], k) = IF source[k] = s THEN 1 ELSE 0

\* One source holds two speakers after a connect call.
C9_Witness ==
    /\ Called({"connect_speaker", "connect_to_source"})
    /\ \E s \in Sources : Len(speakers[s]) = 2

\* C10: when a speaker connected to source S1 is connected to another source
\* S2, through either endpoint, the call returns, the speaker's source is S2,
\* S2 lists it exactly once and S1 no longer lists it.
C10_ReconnectLeavesOldSource ==
    (/\ Called({"connect_speaker", "connect_to_source"})
     /\ CallSrc \in Sources /\ CallSpk \in Speakers
     /\ pre.source[CallSpk] \in Sources \ {CallSrc})
    => /\ Succeeded
       /\ source[CallSpk] = CallSrc
       /\ Count(speakers[CallSrc], CallSpk) = 1
       /\ ~Contains(speakers[pre.source[CallSpk]], CallSpk)

\* speaker.connect_to_source(S2) for a speaker that was connected to S1.
C10_Witness ==
    /\ last.op = "connect_to_source"
    /\ CallSrc \in Sources
    /\ pre.source[CallSpk] \in Sources \ {CallSrc}
    /\ source[CallSpk] = CallSrc

\* C18: converting a vector from the local frame of an object to the global
\* frame and back gives the vector again, and so does converting it from the
\* global frame to the local one and back, for every position and every
\* orientation of the object.
C18_RoundTrip ==
    /\ Called({"local_to_global_position"}) =>
           global_to_local_position(position[last.self], orientation[last.self],
                                    last.result) = last.arg
    /\ Called({"global_to_local_position"}) =>
           local_to_global_position(position[last.self], orientation[last.self],
                                    last.result) = last.arg

C18_Witness ==
    /\ Called({"global_to_local_position"})
    /\ position[last.self] = <<1, -2, 3>>
    /\ orientation[last.self] = <<90, 270, 180>>
    /\ last.arg = <<2, -1, 3>>
    /\ last.result # last.arg

\* C19: in every state that the constructors and setters of the mediums
\* reach, get_speed_of_sound returns a value strictly greater than 0.
C19_SpeedOfSoundPositive ==
    \A m \in Mediums : RPositive(get_speed_of_sound(speed_of_sound, m))

\* the state as the last query would find it now
LastWorld == Built(last.build)
\* the time grid and the point or direction of the last query
CallGrid == last.arg[1]
CallPoint == last.arg[2]
\* some sample of the signal x is a number other than zero
Sounds(x) == \E i \in 1..Len(x) : ~IsNaN(x[i]) /\ x[i][1] # 0
\* the speakers of environment e in the order of their insertion
SpeakersIn(e) == SelectSeq(objects[e], LAMBDA o : o \in Speakers)
\* the i-th sample of the sum of the p of the first n waves
RECURSIVE SumOfP(_, _, _)
SumOfP(waves, i, n) ==
    IF n = 0 THEN FromInt(0) ELSE RAdd(SumOfP(waves, i, n - 1), waves[n][4][i])

\* C11: get_pressure_signal(t, x, y, z) returns, sample by sample, the sum
\* of the p of all plane waves that get_plane_waves(t, x, y, z) returns for
\* the same arguments; when get_plane_waves fails, it fails the same way,
\* and when get_plane_waves returns None instead of a list of records, it
\* fails with TypeError.
C11_PressureIsSumOfPlaneWaves ==
    Called({"get_pressure_signal"}) =>
        LET waves == get_plane_waves(LastWorld, last.self, CallGrid, CallPoint)
        IN  IF waves.exc # "none" THEN last.exc = waves.exc
            ELSE IF waves.value = None THEN last.exc = "TypeError"
            ELSE /\ last.exc = "none"
                 /\ Len(last.result) = Len(CallGrid)
                 /\ \A i \in 1..Len(CallGrid) :
                        last.result[i] = SumOfP(waves.value, i, Len(waves.value))

C11_Witness ==
    /\ Called({"get_pressure_signal"})
    /\ last.exc = "none"
    /\ Len(SpeakersIn(last.self)) = 2
    /\ Sounds(last.result)
    /\ LET waves == get_plane_waves(LastWorld, last.self, CallGrid, CallPoint).value
       IN  Sounds(waves[1][4]) /\ Sounds(waves[2][4]) /\ waves[1][4] # waves[2][4]

\* C12: for an environment without speakers, get_pressure_signal raises
\* nothing and returns zeros, as many as t has samples.
C12_NoSpeakersGiveSilence ==
    (Called({"get_pressure_signal"}) /\ SpeakersIn(last.self) = <<>>) =>
        /\ last.exc = "none"
        /\ last.result = [i \in 1..Len(CallGrid) |-> FromInt(0)]

\* every speaker of the environment e has a source that gives a signal
AllSpeakersSound(e) ==
    \A i \in 1..Len(SpeakersIn(e)) : source[SpeakersIn(e)[i]] \in SineSources

\* C13: get_plane_waves of a SimpleEnvironment returns a list with one
\* record (t, theta, phi, p) for every Speaker among its objects, in the
\* order of their insertion, and none for the other objects.
C13_OneWavePerSpeaker ==
    (/\ Called({"get_plane_waves"})
     /\ last.self \in SimpleEnvs
     /\ AllSpeakersSound(last.self)) =>
        /\ Succeeded
        /\ last.result # None
        /\ Len(last.result) = Len(SpeakersIn(last.self))
        /\ \A i \in 1..Len(last.result) :
               /\ Len(last.result[i]) = 4
               /\ last.result[i][1] = CallGrid
               /\ Len(last.result[i][4]) = Len(CallGrid)

\* C14: the p of the record of a speaker at distance r > 0 from the
\* observation point is the speaker's get_sound_wave at the times t - r/c,
\* c the speed of sound of the medium, divided by r; the t of the record is
\* the t of the caller.
C14_RetardedAndAttenuated ==
    (/\ Called({"get_plane_waves"})
     /\ last.self \in SimpleEnvs
     /\ AllSpeakersSound(last.self)) =>
        /\ Succeeded
        /\ last.result # None
        /\ \A i \in 1..Len(SpeakersIn(last.self)) :
            LET spk == SpeakersIn(last.self)[i]
                d == VecSub(CallPoint, position[spk])
                r == FromInt(cartesian_to_spherical(d).r)
                c == get_speed_of_sound(speed_of_sound, medium[last.self])
                wave == get_sound_wave(World, spk, Shifted(CallGrid, RDiv(r, c)),
                                       FromInt(0), FromInt(0))
            IN  /\ last.result[i][1] = CallGrid
                /\ RPositive(r) =>
                       last.result[i][4] = Divided(wave.value, r)

\* C15: for a speaker with a connected source, get_sound_wave(t, theta, phi)
\* is the amplification times source.get_sound_signal(t), whatever the
\* direction (theta, phi).
C15_SoundWaveIsAmplifiedSignal ==
    (Called({"get_sound_wave"}) /\ source[last.self] # None) =>
        LET signal == get_sound_signal(source[last.self], CallGrid)
        IN  /\ last.exc = signal.exc
            /\ Succeeded => last.result = Scaled(signal.value, amplification[last.self])
            /\ \A dir \in Directions :
                   get_sound_wave(World, last.self, CallGrid, dir[1], dir[2]).value
                       = last.result

C15_Witness ==
    /\ Called({"get_sound_wave"}) /\ Succeeded
    /\ source[last.self] \in SineSources
    /\ amplification[last.self] = <<2, 1>>
    /\ last.arg[2] = << <<90, 1>>, <<180, 1>> >>
    /\ last.result = << <<0, 1>>, <<6, 1>>, <<0, 1>> >>

\* C16: get_sound_wave on a speaker without a source fails with the error
\* "no source connected" and changes neither the speaker nor any source.
C16_NoSourceConnectedError ==
    (Called({"get_sound_wave"}) /\ source[last.self] = None) =>
        /\ last.exc = "no source connected"
        /\ Heap = pre

\* C17: get_voltage_signal(t) of a microphone in an environment is its
\* amplification times the get_pressure_signal of that environment at the
\* position of the microphone; a microphone in no environment fails with
\* "not placed in an environment".
C17_MicrophoneVoltage ==
    Called({"get_voltage_signal"}) =>
        IF environment[last.self] = None
        THEN last.exc = "not placed in an environment"
        ELSE LET pressure == get_pressure_signal(LastWorld, environment[last.self],
                                                 CallGrid, position[last.self])
             IN  /\ last.exc = pressure.exc
                 /\ Succeeded =>
                        last.result = Scaled(pressure.value, amplification[last.self])

C17_Witness ==
    /\ Called({"get_voltage_signal"}) /\ Succeeded
    /\ environment[last.self] \in DirectEnvs
    /\ position[last.self] = <<2, 0, 0>>
    /\ amplification[last.self] = <<3, 1>>
    /\ Sounds(last.result)

\* the reciprocal call of method m on peer x fails for another reason than a
\* missing relationship: x has no such method, or its method raises IOError
FailsOtherwise(x, m) == ~HasMethod(x, m) \/ m \in Overrides(x[1])
Failure(x, m) == IF ~HasMethod(x, m) THEN "AttributeError" ELSE "IOError"
\* the last call ran the method of the library, not an override of it
LibraryCall(ops) == Called(ops) /\ last.op \notin Overrides(last.self[1])

\* C20: when the reciprocal call of a removing or disconnecting call fails
\* for another reason than a missing relationship, the caller raises that
\* failure and its own link stays cleared, while the side of the peer is as
\* it was, so the peer may still list the caller.
C20_ReciprocalFailurePropagates ==
    /\ ( /\ LibraryCall({"remove_from_environment"})
         /\ pre.environment[last.self] = last.arg
         /\ FailsOtherwise(last.arg, "remove_object") ) =>
           /\ last.exc = Failure(last.arg, "remove_object")
           /\ environment[last.self] = None
           /\ objects = pre.objects
    /\ ( /\ LibraryCall({"remove_object"})
         /\ Contains(pre.objects[last.self], last.arg)
         /\ FailsOtherwise(last.arg, "remove_from_environment") ) =>
           /\ last.exc = Failure(last.arg, "remove_from_environment")
           /\ ~Contains(objects[last.self], last.arg)
           /\ environment = pre.environment
    /\ ( /\ LibraryCall({"disconnect_from_source"})
         /\ pre.source[last.self] = last.arg
         /\ FailsOtherwise(last.arg, "disconnect_speaker") ) =>
           /\ last.exc = Failure(last.arg, "disconnect_speaker")
           /\ source[last.self] = None
           /\ speakers = pre.speakers
    /\ ( /\ LibraryCall({"disconnect_speaker"})
         /\ Contains(pre.speakers[last.self], last.arg)
         /\ FailsOtherwise(last.arg, "disconnect_from_source") ) =>
           /\ last.exc = Failure(last.arg, "disconnect_from_source")
           /\ ~Contains(speakers[last.self], last.arg)
           /\ source = pre.source

C20_Witness ==
    /\ Called({"remove_from_environment"})
    /\ last.self = <<"SimpleObject", 1>>
    /\ last.arg = <<"LockedEnvironment", 1>>
    /\ pre.environment[last.self] = last.arg
    /\ last.exc = "IOError"
    /\ environment[last.self] = None
    /\ Contains(objects[last.arg], last.self)

\* the list without the entries x
Without(list, x) == SelectSeq(list, LAMBDA y : y # x)

\* C21: a connect or disconnect call for one speaker leaves the links of
\* every other speaker as they were: the other speakers of every source stay
\* in it in the same order and keep their source; an add or remove call for
\* one object leaves the other members of every environment, and their
\* environment, as they were.
C21_OtherLinksUntouched ==
    /\ Called({"connect_speaker", "disconnect_speaker",
               "connect_to_source", "disconnect_from_source"}) =>
           /\ \A s \in Sources :
                  Without(speakers[s], CallSpk) = Without(pre.speakers[s], CallSpk)
           /\ \A k \in Speakers \ {CallSpk} : source[k] = pre.source[k]
           /\ objects = pre.objects /\ environment = pre.environment
    /\ Called({"add_object", "remove_object",
               "add_to_environment", "remove_from_environment"}) =>
           /\ \A e \in Envs :
                  Without(objects[e], CallObj) = Without(pre.objects[e], CallObj)
           /\ \A o \in Placed \ {CallObj} : environment[o] = pre.environment[o]
           /\ speakers = pre.speakers /\ source = pre.source

\* A speaker left a source that keeps its other speaker.
C21_Witness ==
    /\ Called({"disconnect_speaker"}) /\ Succeeded
    /\ Len(pre.speakers[last.self]) = 2
    /\ pre.speakers[last.self][1] = last.arg
    /\ speakers[last.self] = <<pre.speakers[last.self][2]>>
    /\ source[speakers[last.self][1]] = last.self

\* C22: get_plane_waves, get_pressure_signal and get_objects change neither
\* the objects of an environment, nor the environment, position or
\* orientation of an object, nor a link between speaker and source, nor the
\* medium.
C22_QueriesReadOnly ==
    [][last'.op \in {"get_plane_waves", "get_pressure_signal", "get_objects"} =>
           /\ UNCHANGED <<objects, environment, speakers, source>>
           /\ UNCHANGED <<position, orientation, amplification>>
           /\ UNCHANGED <<medium, speed_of_sound>>]_vars

\* Two speakers and the microphone were in the SimpleEnvironment when it
\* was asked for its speakers, and still are.
C22_Witness ==
    /\ Called({"get_objects"}) /\ Succeeded
    /\ last.self \in SimpleEnvs
    /\ Len(last.result) = 2
    /\ Len(objects[last.self]) = 3
    /\ \A i \in 1..3 : environment[objects[last.self][i]] = last.self

\* C23: get_objects(kind) returns exactly the current members of the
\* requested kind, once each, in insertion order; without a kind it returns
\* all the objects of the environment, its speakers and microphones included.
C23_GetObjectsListsMembers ==
    Called({"get_objects"}) /\ Succeeded =>
        IF last.arg = <<>>
        THEN last.result = objects[last.self]
        ELSE last.result =
                 SelectSeq(objects[last.self],
                           LAMBDA o : IsInstance(o, last.arg[1]))

\* the component i of a position or orientation f is the number 0
IsZero(f, i) == i \in DOMAIN f /\ f[i] = 0

\* a setter given g has made new of the components cur, the first of which is
\* the argument number shift + 1
AfterSetting(cur, new, g, shift) ==
    \A i \in 1..3 :
        IF (i + shift) \in DOMAIN g
        THEN i \in DOMAIN new /\ new[i] = g[i + shift]
        ELSE (i \in DOMAIN new <=> i \in DOMAIN cur)
             /\ (i \in DOMAIN cur => new[i] = cur[i])

\* C24: every component of the position and orientation of a plain object,
\* speaker or microphone that was not given at construction is zero; a later
\* set_position or set_orientation changes the components it is given, and
\* neither another component nor the environment of the object nor a link.
C24_DefaultsZeroSettersPartial ==
    /\ [](last.op = "init" =>
              \A o \in PlainObjects \cup FrameSpeakers :
                  /\ \A i \in 1..3 : IsZero(position[o], i)
                  /\ \A i \in 1..2 : IsZero(orientation[o], i)
                  /\ o \in PlainObjects => IsZero(orientation[o], 3))
    /\ [][last'.op \in {"set_position", "set_orientation"} /\ last'.exc = "none" =>
              /\ UNCHANGED <<links, amplification, medium, speed_of_sound>>
              /\ \A o \in DOMAIN position \ {last'.self} :
                     position'[o] = position[o] /\ orientation'[o] = orientation[o]
              /\ LET o == last'.self
                     g == last'.arg
                 IN  CASE last'.op = "set_orientation" ->
                              /\ AfterSetting(orientation[o], orientation'[o], g, 0)
                              /\ position'[o] = position[o]
                       [] o \in FrameSpeakers ->
                              /\ AfterSetting(position[o], position'[o], g, 0)
                              /\ AfterSetting(orientation[o], orientation'[o], g, 3)
                       [] OTHER ->
                              /\ AfterSetting(position[o], position'[o], g, 0)
                              /\ orientation'[o] = orientation[o]]_vars

\* the vector v turned by `a` degrees around the z-axis and around the y-axis
TurnedZ(a, v) == MatVec(RotZ(a % 360), v)
TurnedY(a, v) == MatVec(RotY(a % 360), v)

\* C25: local_to_global_position(v) is position + R_z(phi) R_y(theta)
\* R_z(alpha) v; global_to_local_position applies the inverse rotations in
\* the reverse order to v - position; for an object with orientation
\* (0, 0, 0) local_to_global_position only adds the position.
C25_FrameFormulas ==
    LET o     == last.self
        theta == orientation[o][1]
        phi   == orientation[o][2]
        alpha == orientation[o][3]
    IN  /\ Called({"local_to_global_position"}) =>
               /\ last.result =
                      VecAdd(position[o],
                             TurnedZ(phi, TurnedY(theta, TurnedZ(alpha, last.arg))))
               /\ orientation[o] = <<0, 0, 0>> =>
                      \A i \in 1..3 : last.result[i] = last.arg[i] + position[o][i]
        /\ Called({"global_to_local_position"}) =>
               last.result =
                   TurnedZ(-alpha, TurnedY(-theta,
                       TurnedZ(-phi, VecSub(last.arg, position[o]))))

\* A vector was converted to the global frame of an object that is moved and
\* turned around all three axes.
C25_Witness ==
    /\ Called({"local_to_global_position"})
    /\ position[last.self] = <<1, -2, 3>>
    /\ orientation[last.self] = <<90, 270, 180>>
    /\ last.result # VecAdd(position[last.self], last.arg)

\* C26: after every completed top-level membership call, a ValueError
\* included, an object whose environment reference is E is in the collection
\* of E (and the reference is an environment or None).
C26_ReferenceImpliesMembership ==
    \A o \in Placed :
        environment[o] # None =>
            /\ environment[o] \in Envs
            /\ Contains(objects[environment[o]], o)

\* A second attempt to add a member was rejected; the member still refers to
\* the environment and the environment still lists it.
C26_Witness ==
    /\ Called({"add_object"})
    /\ last.exc = "ValueError"
    /\ CallObj \in Placed
    /\ environment[CallObj] = CallEnv
    /\ Contains(objects[CallEnv], CallObj)

\* C27: a top-level connect or add call that is rejected as a duplicate and
\* a top-level disconnect or remove call that is rejected as missing leave
\* the whole state as it was before the call.
C27_RejectedCallChangesNothing ==
    /\ (/\ Called({"add_object", "add_to_environment"})
        /\ CallEnv \in Envs
        /\ Contains(pre.objects[CallEnv], CallObj))
       => Heap = pre
    /\ (/\ Called({"remove_object", "remove_from_environment"})
        /\ ~(CallEnv \in Envs /\ Contains(pre.objects[CallEnv], CallObj)))
       => Heap = pre
    /\ (/\ Called({"connect_speaker", "connect_to_source"})
        /\ CallSrc \in Sources
        /\ Contains(pre.speakers[CallSrc], CallSpk))
       => Heap = pre
    /\ (/\ Called({"disconnect_speaker", "disconnect_from_source"})
        /\ ~(CallSrc \in Sources /\ Contains(pre.speakers[CallSrc], CallSpk)))
       => Heap = pre

\* A source was asked to disconnect a speaker that is connected to the
\* other source, and refused.
C27_Witness ==
    /\ Called({"disconnect_speaker"})
    /\ last.exc = "ValueError"
    /\ CallSpk \in Speakers
    /\ source[CallSpk] \in Sources \ {CallSrc}
    /\ Contains(speakers[source[CallSpk]], CallSpk)

\* C28: two environments constructed with default arguments share no mutable
\* state: an object added to one does not appear in the other, and changing
\* the speed of sound of the default medium of one does not change the speed
\* of sound of the medium of the other.
C28_DefaultsNotShared ==
    [][\A e \in DefaultEnvs : \A f \in DefaultEnvs \ {e} :
           /\ last'.op = "add_object" /\ last'.self = e =>
                  \A o \in DefaultObjects :
                      Contains(objects'[f], o) => Contains(objects[f], o)
           /\ (/\ last'.op = "set_speed_of_sound"
               /\ medium[e] = DefaultMedium
               /\ last'.self = medium[e]) =>
                  get_speed_of_sound(speed_of_sound', medium'[f]) =
                      get_speed_of_sound(speed_of_sound, medium[f])]_vars

====
